---- MODULE Spec2Model ----
(***************************************************************************)
(* The command dispatcher of pocok (services/command_handler.py): mode     *)
(* detection at construction, dispatch of one verb through the command     *)
(* hierarchy to the Docker / Kubernetes / Helm / Script runners, and the   *)
(* post hooks.  One step of the model is one call the dispatcher makes:    *)
(* the construction, the head of run(), one runner.run(...) call, the      *)
(* post-methods, the after_script call.                                    *)
(***************************************************************************)
EXTENDS Naturals, Integers, Sequences, FiniteSets, TLC

\* ------------------------------------------------------------------ bounds
MaxCmds == 2      \* command tokens in one backend sequence of a verb
MaxList == 2      \* entries of a list-valued plan field (files, scripts)
MaxInits == 2     \* dispatcher constructions in one process
MaxRuns == 1      \* dispatches in one process
MaxResolves == 2  \* resolutions of the environment in one process

\* ------------------------------------------------------------------ data
Modes == {"Docker", "Kubernetes", "Helm"}
ExitCodes == {0, 1}

\* Keys of a structured plan that select the backend ...
BackendKeySets == { {}, {"kubernetes-file"}, {"kubernetes-dir"}, {"helm-file"},
                    {"helm-dir"}, {"kubernetes-file", "helm-file"},
                    {"kubernetes-dir", "helm-dir"}, {"helm-file", "helm-dir"} }
\* ... and those that declare scripts.
ScriptKeySets == { {}, {"script"}, {"before_script", "after_script"},
                   {"script", "before_script", "after_script"} }

\* A plan: a bare list of n services, or a dict with the given keys; every
\* list-valued field (and every directory scan) has n entries.
Plans ==
  { [dict |-> FALSE, keys |-> {}, n |-> n] : n \in 0..MaxList }
  \cup
  { [dict |-> TRUE, keys |-> b \cup s, n |-> n] :
      b \in BackendKeySets, s \in ScriptKeySets, n \in 0..MaxList }

\* The project descriptor, as far as the script runner reads it: the
\* project-level hook scripts (one script per declared key).
Projects == {{}, {"before_script", "after_script"}}

Verbs == {"start", "up", "build", "down"}
AllVerbs == Verbs \cup {"bogus"}

Cmds(n) == [i \in 1..n |-> [kind |-> "cmd", i |-> i]]
PullCmd == [kind |-> "pull", i |-> 0]
\* Helm commands whose tokens contain "install" or "upgrade".
HelmCmds(n) == [i \in 1..n |-> [kind |-> IF i = 1 THEN "install" ELSE "upgrade", i |-> i]]

\* The bundled command-hierarchy.yml.  `hooks` switches the before/after
\* flags and the post-methods of the entries on or off.
HierarchyTable(hooks) ==
  [v \in Verbs |->
     CASE v = "start" -> [docker |-> Cmds(MaxCmds), kubernetes |-> Cmds(MaxCmds),
                          helm |-> HelmCmds(MaxCmds), before |-> hooks, after |-> hooks,
                          postmethods |-> <<>>]
       [] v = "up"    -> [docker |-> Cmds(1), kubernetes |-> Cmds(1),
                          helm |-> HelmCmds(1), before |-> hooks, after |-> ~hooks,
                          postmethods |-> <<>>]
       [] v = "build" -> [docker |-> Cmds(1), kubernetes |-> <<>>,
                          helm |-> <<>>, before |-> FALSE, after |-> hooks,
                          postmethods |-> IF hooks THEN <<"pack">> ELSE <<>>]
       [] v = "down"  -> [docker |-> <<>>, kubernetes |-> Cmds(1),
                          helm |-> Cmds(MaxCmds), before |-> FALSE, after |-> hooks,
                          postmethods |-> IF hooks THEN <<"pack">> ELSE <<>>]]

VARIABLES
  container_mode,   \* StateHolder.container_mode (process-wide)
  always_update,    \* StateHolder.always_update
  env_ok,           \* every referenced environment file can be located
  hierarchy,        \* command-hierarchy.yml as loaded: [yaml, isdict, table]
  project_compose,  \* project-level keys of the descriptor
  plan,             \* self.project_compose['plan'][self.plan]
  pc,               \* "none" | "ready" | "main" | "post" | "after" | "done" | "fatal"
  cmd,              \* the verb being dispatched
  path,             \* branch taken by run(): "script" | "skip" | "kubectl" | "helm" | "Docker"
  queue,            \* command tokens still to run
  log,              \* external invocations and hook calls of the current dispatch
  error,            \* why the process terminated ("none" while it has not)
  mode0,            \* container_mode when the current dispatch began
  ninit,            \* dispatcher constructions so far
  nrun,             \* dispatches so far
  os_environ,       \* os.environ, the inherited environment of the process
  env_files,        \* the environment files of the repository: path -> lines
  rin,              \* what a resolution reads: [project, plan, listing, system, inherited]
  env_out,          \* results of the get_environment_variables calls so far
  files_out,        \* result of the get_docker_files call, once made
  files_at,         \* env_files as they were at each of those calls
  scripts_out,      \* the last ScriptPlanRunner.run call on its own
  checkouts         \* run_checkouts of the start command: [offline, entries, next, cloned, at]

dvars == <<container_mode, always_update, env_ok, hierarchy, project_compose,
           plan, pc, cmd, path, queue, log, error, mode0, ninit, nrun>>
rvars == <<os_environ, env_files, rin, env_out, files_out, files_at, scripts_out,
           checkouts>>
vars == <<dvars, rvars>>

Ev(tool, kind, i, f, rc) == [tool |-> tool, kind |-> kind, i |-> i, f |-> f, rc |-> rc]

\* One word of a command line: a literal, or the n-th file or directory of
\* the plan ("file", n) or the options of the n-th command ("opt", n).
Arg(w, n) == [w |-> w, n |-> n]
Lit(w) == Arg(w, 0)
\* The words of a command of the hierarchy: its name, then its options.
Words(tok) == IF tok.kind = "pull" THEN <<Lit("pull")>>
              ELSE <<Lit(tok.kind), Arg("opt", tok.i)>>
\* "-f", file for each file, in order
RECURSIVE FileFlags(_)
FileFlags(files) ==
  IF files = <<>> THEN <<>>
  ELSE <<Lit("-f"), Arg("file", Head(files))>> \o FileFlags(Tail(files))
\* StateHolder.name, and the release name made of it
ProjectName == Lit("<name>")
ReleaseName == Lit("pocok-<name>")
\* An invocation of a backend tool: the event of the token, with the
\* command line given to run_script_with_check.
Invocation(tool, tok, f, rc, args) ==
  [tool |-> tool, kind |-> tok.kind, i |-> tok.i, f |-> f, rc |-> rc, args |-> args]

\* ------------------------------------------------------------------ pure parts

\* Variant: the helm-* test placed before the kubernetes-* test.
DetectMode_helm_first(p, current) ==
  IF p.dict /\ ("helm-file" \in p.keys \/ "helm-dir" \in p.keys)
    THEN "Helm"
  ELSE IF p.dict /\ ("kubernetes-file" \in p.keys \/ "kubernetes-dir" \in p.keys)
    THEN "Kubernetes"
  ELSE current

\* CommandHandler.__init__, "Check mode": the plan only ever switches the
\* process-wide mode to Kubernetes or Helm; otherwise the mode is left as is.
DetectMode(p, current) ==
  IF p.dict /\ ("kubernetes-file" \in p.keys \/ "kubernetes-dir" \in p.keys)
    THEN "Kubernetes"
  ELSE IF p.dict /\ ("helm-file" \in p.keys \/ "helm-dir" \in p.keys)
    THEN "Helm"
  ELSE current

\* Variant: the exit status is returned and dropped (subprocess.call).
run_script_with_check_unchecked(rc) == ""

\* AbstractPlanRunner.run_script_with_check: check_call raises
\* CalledProcessError for every nonzero exit status (the `res > 0` test
\* behind it never sees one).  The value is the exception raised, "" for none.
run_script_with_check(rc) == IF rc /= 0 THEN "CalledProcessError" ELSE ""

\* The invocations `evs` of one runner call, run one after the other through
\* run_script_with_check: all exit 0, or the first k-1 do and the k-th exits
\* nonzero and raises.
Sequential(evs) ==
  { [evs |-> evs, raised |-> run_script_with_check(0)] }
  \cup
  { [evs |-> [j \in 1..k |-> IF j < k THEN evs[j] ELSE [evs[j] EXCEPT !.rc = rc]],
     raised |-> run_script_with_check(rc)]
      : k \in 1..Len(evs), rc \in ExitCodes \ {0} }

\* Variant: the project-level scripts taken for the type "script" too.
get_native_scripts_all_types(proj, p, script_type) ==
  (IF script_type \in proj \cup {"script"}
     THEN <<[origin |-> "project", i |-> 1]>> ELSE <<>>)
  \o
  (IF script_type \in p.keys
     THEN [i \in 1..p.n |-> [origin |-> "plan", i |-> i]] ELSE <<>>)

\* ScriptPlanRunner.get_native_scripts
get_native_scripts(proj, p, script_type) ==
  (IF script_type /= "script" /\ script_type \in proj
     THEN <<[origin |-> "project", i |-> 1]>> ELSE <<>>)
  \o
  (IF script_type \in p.keys
     THEN [i \in 1..p.n |-> [origin |-> "plan", i |-> i]] ELSE <<>>)

\* ScriptPlanRunner.run: one `docker run ... sh -c "<script>"` per script.
ScriptPlanRunner_run(proj, p, script_type) ==
  LET scripts == get_native_scripts(proj, p, script_type)
      runs == [j \in 1..Len(scripts) |->
                 Ev("script", script_type, scripts[j].i,
                    IF scripts[j].origin = "plan" THEN 1 ELSE 0, 0)]
      call == Ev("ScriptPlanRunner", script_type, 0, 0, 0)
  IN { [evs |-> <<call>> \o o.evs, raised |-> o.raised] : o \in Sequential(runs) }

\* DockerPlanRunner.get_docker_files, by position: the n compose files of
\* the plan.
docker_files(p) == [f \in 1..p.n |-> f]

\* Variant: the command tokens placed before the -f options.
docker_command_tokens_first(p, tok) ==
  <<Lit("docker-compose")>> \o Words(tok)
    \o <<Lit("--project-name"), ProjectName>> \o FileFlags(docker_files(p))

\* DockerPlanRunner.run, `cmd`
docker_command(p, tok) ==
  <<Lit("docker-compose"), Lit("--project-name"), ProjectName>>
    \o FileFlags(docker_files(p)) \o Words(tok)

\* DockerPlanRunner.run: one docker-compose invocation for the token.
DockerPlanRunner_run(p, tok) ==
  { [evs |-> <<Invocation("docker-compose", tok, 0, rc, docker_command(p, tok))>>,
     raised |-> run_script_with_check(rc)] : rc \in ExitCodes }

\* KubernetesRunner.run, `files`: the entries of kubernetes-file in list
\* order, else the sorted files of kubernetes-dir.
kubernetes_files(p) ==
  IF p.dict /\ "kubernetes-file" \in p.keys THEN [f \in 1..p.n |-> f]
  ELSE IF p.dict /\ "kubernetes-dir" \in p.keys THEN [f \in 1..p.n |-> f]
  ELSE <<>>

\* KubernetesRunner.run, `cmd` for one file
kubectl_command(tok, file) ==
  <<Lit("kubectl")>> \o Words(tok) \o <<Lit("-f"), Arg("file", file)>>

\* Variant: the files taken last to first.
KubernetesRunner_run_reversed(p, tok) ==
  LET files == kubernetes_files(p)
  IN Sequential([j \in 1..Len(files) |->
       Invocation("kubectl", tok, files[Len(files) + 1 - j], 0,
                  kubectl_command(tok, files[Len(files) + 1 - j]))])

\* KubernetesRunner.run: one kubectl invocation per resolved manifest file.
KubernetesRunner_run(p, tok) ==
  LET files == kubernetes_files(p)
  IN Sequential([j \in 1..Len(files) |->
       Invocation("kubectl", tok, files[j], 0, kubectl_command(tok, files[j]))])

\* HelmRunner.run, the warning: a helm-dir list of more than one directory,
\* read only when the plan has no helm-file.
helm_dir_warning(p) ==
  p.dict /\ "helm-file" \notin p.keys /\ "helm-dir" \in p.keys /\ p.n > 1

\* Variant: the last directory of helm-dir taken as the chart directory.
chart_dirs_last(p) ==
  IF p.dict /\ "helm-file" \notin p.keys /\ "helm-dir" \in p.keys /\ p.n > 0
    THEN <<p.n>> ELSE <<>>

\* HelmRunner.run, `dirs`: the first directory of helm-dir (by its position
\* in the list), and nothing for a plan with helm-file.
chart_dirs(p) ==
  IF p.dict /\ "helm-file" \notin p.keys /\ "helm-dir" \in p.keys /\ p.n > 0
    THEN <<1>> ELSE <<>>

\* HelmRunner.run, `files`: the entries of helm-file in list order.
helm_files(p) ==
  IF p.dict /\ "helm-file" \in p.keys THEN [f \in 1..p.n |-> f] ELSE <<>>

\* HelmRunner.run, `cmd` before the test: helm, the tokens, the release name
helm_base(tok) == <<Lit("helm")>> \o Words(tok) \o <<ReleaseName>>

\* Variant: the chart directory and the files appended to every command.
takes_chart_always(c) == TRUE

\* HelmRunner.run: `"install" in cmd or "upgrade" in cmd`
takes_chart(c) ==
  \E j \in 1..Len(c) : c[j] = Lit("install") \/ c[j] = Lit("upgrade")

\* HelmRunner.run, `cmd` as invoked
helm_command(p, tok) ==
  helm_base(tok)
    \o (IF takes_chart(helm_base(tok))
          THEN (IF chart_dirs(p) /= <<>> THEN <<Arg("dir", chart_dirs(p)[1])>> ELSE <<>>)
               \o FileFlags(helm_files(p))
          ELSE <<>>)

\* HelmRunner.run up to the invocation: the warning, then the one helm
\* command; f is the chart directory appended to it (0: none), which only a
\* command with the token "install" or "upgrade" gets.
helm_events(p, tok, rc) ==
  (IF helm_dir_warning(p) THEN <<Ev("warning", "helm-dir", tok.i, 0, 0)>> ELSE <<>>)
  \o <<Invocation("helm", tok,
                  IF takes_chart(helm_base(tok)) /\ chart_dirs(p) /= <<>>
                    THEN chart_dirs(p)[1] ELSE 0,
                  rc, helm_command(p, tok))>>

\* Variant: HelmRunner.run without its try/except.
HelmRunner_run_propagating(p, tok) ==
  IF p.dict /\ "helm-file" \notin p.keys /\ "helm-dir" \in p.keys /\ p.n = 0
    THEN { [evs |-> <<>>, raised |-> "IndexError"] }
    ELSE { [evs |-> helm_events(p, tok, rc),
            raised |-> run_script_with_check(rc)] : rc \in ExitCodes }

\* HelmRunner.run: one helm invocation; a CalledProcessError is caught and
\* dropped.  An empty helm-dir list makes `directories[0]` raise before any
\* invocation.
HelmRunner_run(p, tok) ==
  IF p.dict /\ "helm-file" \notin p.keys /\ "helm-dir" \in p.keys /\ p.n = 0
    THEN { [evs |-> <<>>, raised |-> "IndexError"] }
    ELSE { [evs |-> helm_events(p, tok, rc),
            raised |-> IF run_script_with_check(rc) = "CalledProcessError"
                         THEN "" ELSE run_script_with_check(rc)]
             : rc \in ExitCodes }

\* run_kubernetes: the runner is chosen by the mode, and so is the key of
\* the entry's sequence (container_mode.lower()).
runner_for(mode) == IF mode = "Kubernetes" THEN "kubectl" ELSE "helm"
sequence_key(mode) ==
  CASE mode = "Kubernetes" -> "kubernetes"
    [] mode = "Helm" -> "helm"
    [] OTHER -> "docker"

\* Variant: the pull placed first for every verb in always-update mode.
docker_sequence_any_verb(c, e, update) ==
  (IF update THEN <<PullCmd>> ELSE <<>>) \o e.docker

\* The main sequence of the Docker branch of run(): an extra pull first in
\* always-update mode for the verb "start".
docker_sequence(c, e, update) ==
  (IF update /\ c = "start" THEN <<PullCmd>> ELSE <<>>) \o e.docker

Entry == hierarchy.table[cmd]

\* Variant: the script test made only after the Kubernetes/Helm test.
takes_script_branch_docker_only(p, mode) ==
  p.dict /\ "script" \in p.keys /\ mode \notin {"Kubernetes", "Helm"}

\* run(): `isinstance(plan, dict) and 'script' in plan`, tested before the mode
takes_script_branch(p, mode) == p.dict /\ "script" \in p.keys

\* Variant: the script of a script plan run for every verb.
runs_script_any(c) == TRUE

\* run(), inside the script branch: `cmd == 'start' or cmd == 'up'`
runs_script(c) == c = "start" \/ c = "up"

\* Variant: check_command without the test of the hierarchy's type.
check_command_untyped(h, c) == c \notin DOMAIN h.table

\* check_command: TRUE when the dispatch is refused (the hierarchy is None or
\* no dict, or the verb is not one of its keys).
check_command(h, c) == ~h.isdict \/ c \notin DOMAIN h.table

\* Variant: an environment file that cannot be located is skipped.
parse_environment_dict_skips(located) == FALSE

\* parse_environment_dict: `env_file is None` ends the process.  TRUE when
\* the resolution of the environment terminates the process.
parse_environment_dict_exits(located) == ~located

\* Variant: run_kubernetes without its emptiness check.
unsupported_never(e, mode) == FALSE

\* run_kubernetes: `len(command_list[container_mode.lower()]) == 0`
unsupported(e, mode) == Len(e[sequence_key(mode)]) = 0

\* Variant: after_run without the test of the flag.
after_flag_always(e) == TRUE

\* after_run: `command_list.get('after', False)`
after_flag(e) == e.after

\* ------------------------------------------------------------------ environment and compose files

\* A file of the repository by directory, name and extension; names are
\* numbered in their lexicographic order.
Path(dir, name, ext) == [dir |-> dir, name |-> name, ext |-> ext]
None == Path("None", 0, "")
DefaultEnv == Path("", 0, ".env")
IncludeA == Path("", 1, ".env")
IncludeB == Path("", 2, ".env")
AbsentEnv == Path("", 3, ".env")
DirEnv1 == Path("conf", 1, ".env")
DirEnv2 == Path("conf", 2, ".env")
DirYml == Path("conf", 3, ".yml")

\* Lines are sequences of symbols (a character, or a whole word such as
\* HOST_SYSTEM); keys and values of the environment are such sequences too.
Whitespace == {" ", "\n", "\t"}
HOST_SYSTEM == <<"HOST_SYSTEM">>
EmptyEnv == [k \in {} |-> <<>>]

\* Environment files in which every line is KEY=value: each file sets A to
\* its own tag, the default and the includes set P, the default and the
\* scanned files set D.
PlainFiles ==
  [f \in {DefaultEnv, IncludeA, IncludeB, DirEnv1, DirEnv2} |->
     CASE f = DefaultEnv -> << <<"A", "=", "0">>, <<"P", "=", "0">>, <<"D", "=", "0">> >>
       [] f = IncludeA   -> << <<"A", "=", "1">>, <<"P", "=", "1">> >>
       [] f = IncludeB   -> << <<"A", "=", "2">>, <<"P", "=", "2">> >>
       [] f = DirEnv1    -> << <<"A", "=", "3">>, <<"D", "=", "3">> >>
       [] f = DirEnv2    -> << <<"A", "=", "4">>, <<"D", "=", "4">> >>]

\* The same files with comments, blanks around keys and values, a line
\* without "=", a value holding "=", a key defined twice, a "#" that is not
\* the first character, and HOST_SYSTEM defined.
MessyFiles ==
  [f \in {DefaultEnv, IncludeA, IncludeB, DirEnv1, DirEnv2} |->
     CASE f = DefaultEnv -> << <<"#", "A", "=", "9", "\n">>,
                               <<" ", "A", " ", "=", " ", "0", " ", "\n">>,
                               <<"HOST_SYSTEM", "=", "x", "\n">>,
                               <<"\n">> >>
       [] f = IncludeA   -> << <<"A", "=", "1", "=", "1", "\n">>, <<"P", "\n">> >>
       [] f = IncludeB   -> << <<"A", "=", "7", "\n">>, <<"A", "=", "2", "\n">>,
                               <<"P", "=", "\n">> >>
       [] f = DirEnv1    -> << <<"D", "=", "3", "\n">>, <<"#", "D", "=", "9">>,
                               <<" ", "#", "Q", "=", "1", "\n">> >>
       [] f = DirEnv2    -> << <<"D", "=", "4", "\n">>, <<"HOST_SYSTEM", "=", "y">> >>]

Environs ==
  { EmptyEnv,
    [k \in {<<"A">>, <<"E">>} |-> <<"e">>],
    [k \in {HOST_SYSTEM, <<"E">>} |-> <<"e">>] }

\* Project descriptors as the resolutions read them; the last one is the
\* absent descriptor (None).
ResolveProjects ==
  { [none |-> n, keys |-> ks, environment |-> e,
     containers |-> [sv \in (IF "containers" \in ks THEN {"web"} ELSE {}) |-> "custom.yml"]] :
      n \in {FALSE}, ks \in SUBSET {"environment", "containers"},
      e \in {DefaultEnv, AbsentEnv} }
  \cup { [none |-> TRUE, keys |-> {}, environment |-> DefaultEnv,
          containers |-> [sv \in {} |-> "custom.yml"]] }

DirKeys == {"docker-compose-dir", "kubernetes-dir", "helm-dir"}
IncludeLists == { <<IncludeA>>, <<IncludeA, IncludeB>>, <<IncludeB, IncludeA>>,
                  <<AbsentEnv>> }
ServiceLists == { <<>>, <<"web">>, <<"web", "db">>, <<"db", "web">> }

\* Plans as the resolutions read them: a bare list of services, or a dict
\* with an environment include, at most one directory key and possibly
\* docker-compose-file.
ResolvePlans ==
  { [dict |-> FALSE, keys |-> {}, include |-> <<>>, services |-> sv,
     compose_files |-> <<>>] : sv \in ServiceLists }
  \cup
  { [dict |-> TRUE, keys |-> ek \cup dk \cup fk,
     include |-> inc, services |-> <<>>,
     compose_files |-> IF fk = {} THEN <<>> ELSE <<"db", "web">>] :
      ek \in {{"environment"}}, inc \in IncludeLists,
      dk \in {{}} \cup {{d} : d \in DirKeys},
      fk \in {{}, {"docker-compose-file"}} }
  \cup
  { [dict |-> TRUE, keys |-> dk \cup fk, include |-> <<>>, services |-> <<>>,
     compose_files |-> IF fk = {} THEN <<>> ELSE <<"db", "web">>] :
      dk \in {{}} \cup {{d} : d \in DirKeys},
      fk \in {{}, {"docker-compose-file"}} }

\* The directory of the plan as the filesystem enumerates it.
Listings == { <<DirEnv1, DirYml, DirEnv2>>, <<DirEnv2, DirEnv1, DirYml>> }
Systems == {<<"Linux">>, <<"Darwin">>}

\* dict assignment and the overlay of one dict on another
Put(env, k, v) == [x \in DOMAIN env \cup {k} |-> IF x = k THEN v ELSE env[x]]
Overlay(base, over) ==
  [k \in DOMAIN base \cup DOMAIN over |-> IF k \in DOMAIN over THEN over[k] ELSE base[k]]

\* str.startswith, str.strip and str.split("=", 1)
startswith(l, c) == Len(l) > 0 /\ l[1] = c

\* Variant: the line split at its last "=".
split_at_last(l) ==
  LET eqs == { i \in 1..Len(l) : l[i] = "=" }
  IN IF eqs = {} THEN <<l>>
     ELSE LET m == CHOOSE i \in eqs : \A j \in eqs : i >= j
          IN <<SubSeq(l, 1, m - 1), SubSeq(l, m + 1, Len(l))>>

RECURSIVE lstrip(_)
lstrip(t) == IF Len(t) > 0 /\ Head(t) \in Whitespace THEN lstrip(Tail(t)) ELSE t
RECURSIVE rstrip(_)
rstrip(t) ==
  IF Len(t) > 0 /\ t[Len(t)] \in Whitespace THEN rstrip(SubSeq(t, 1, Len(t) - 1)) ELSE t
strip(t) == rstrip(lstrip(t))
split_once(l) ==
  LET eqs == { i \in 1..Len(l) : l[i] = "=" }
  IN IF eqs = {} THEN <<l>>
     ELSE LET m == CHOOSE i \in eqs : \A j \in eqs : i <= j
          IN <<SubSeq(l, 1, m - 1), SubSeq(l, m + 1, Len(l))>>

\* parse_environment_dict, the body of the loop over the lines
parse_line(env, l) ==
  IF startswith(l, "#") THEN env
  ELSE IF Len(split_once(l)) > 1
    THEN Put(env, strip(split_once(l)[1]), strip(split_once(l)[2]))
  ELSE env

RECURSIVE parse_lines(_, _)
parse_lines(lines, env) ==
  IF lines = <<>> THEN env ELSE parse_lines(Tail(lines), parse_line(env, Head(lines)))

\* ProjectUtils.get_file: the file when it is in the repository, else None.
get_file(files, f) == IF f \in DOMAIN files THEN f ELSE None

\* A resolution under way: the dict so far, or the file whose absence ended
\* the process.
Resolving(env) == [ok |-> TRUE, env |-> env, missing |-> None]

\* parse_environment_dict(path, env)
parse_environment_dict(files, f, r) ==
  IF ~r.ok THEN r
  ELSE IF get_file(files, f) = None THEN [ok |-> FALSE, env |-> r.env, missing |-> f]
  ELSE Resolving(parse_lines(files[f], r.env))

RECURSIVE parse_each(_, _, _)
parse_each(files, envs, r) ==
  IF envs = <<>> THEN r
  ELSE parse_each(files, Tail(envs), parse_environment_dict(files, Head(envs), r))

\* Variant: the project default parsed after the files of the plan.
get_environment_dict_default_last(proj, files, envs) ==
  IF "environment" \in proj.keys
    THEN parse_environment_dict(files, proj.environment,
                                parse_each(files, envs, Resolving(EmptyEnv)))
    ELSE parse_each(files, envs, Resolving(EmptyEnv))

\* get_environment_dict(envs): the project default first, then envs in order
get_environment_dict(proj, files, envs) ==
  parse_each(files, envs,
             IF "environment" \in proj.keys
               THEN parse_environment_dict(files, proj.environment, Resolving(EmptyEnv))
               ELSE Resolving(EmptyEnv))

\* FileUtils.get_filtered_sorted_alter_from_base_dir: the files of the
\* directory with one of the extensions, sorted by name.
get_filtered_sorted_alter_from_base_dir(listing, filter_ends) ==
  SortSeq(SelectSeq(listing, LAMBDA f : f.ext \in filter_ends),
          LAMBDA f, g : f.name < g.name)

\* Variant: every directory key of the plan scanned for .env files.
plan_env_files_any_dir(p, listing) ==
  IF ~p.dict THEN <<>>
  ELSE (IF "environment" \in p.keys THEN p.include ELSE <<>>)
       \o (IF p.keys \cap DirKeys /= {}
             THEN get_filtered_sorted_alter_from_base_dir(listing, {".env"})
             ELSE <<>>)

\* get_environment_variables, `envs`: the includes of the plan, then the
\* .env files of its docker-compose-dir.
plan_env_files(p, listing) ==
  IF ~p.dict THEN <<>>
  ELSE (IF "environment" \in p.keys THEN p.include ELSE <<>>)
       \o (IF "docker-compose-dir" \in p.keys
             THEN get_filtered_sorted_alter_from_base_dir(listing, {".env"})
             ELSE <<>>)

\* Variant: HOST_SYSTEM set before the files are laid over the environment.
get_environment_variables_host_first(proj, p, files, listing, environ, system) ==
  LET d == get_environment_dict(proj, files, plan_env_files(p, listing))
  IN IF ~d.ok THEN d
     ELSE Resolving(Overlay(Put(environ, HOST_SYSTEM, system), d.env))

\* get_environment_variables(plan): the dict of the files laid over a copy
\* of os.environ, then HOST_SYSTEM set to platform.system().
get_environment_variables(proj, p, files, listing, environ, system) ==
  LET d == get_environment_dict(proj, files, plan_env_files(p, listing))
  IN IF ~d.ok THEN d
     ELSE Resolving(Put(Overlay(environ, d.env), HOST_SYSTEM, system))

\* Variant: the files laid over os.environ itself.
environ_after_in_place(environ, r) == IF r.ok THEN r.env ELSE environ

\* os.environ after get_environment_variables returned r: the assignments
\* went to the copy.
environ_after(environ, r) == environ

\* get_compose_file_name(service)
get_compose_file_name(proj, service) ==
  IF proj.none THEN service
  ELSE IF "containers" \in proj.keys /\ service \in DOMAIN proj.containers
    THEN proj.containers[service]
  ELSE service

\* get_docker_compose(service): the path of the named file.
get_docker_compose(proj, service) == Path("", get_compose_file_name(proj, service), "")

\* get_file_list: the .yml and .yaml files of the directory, sorted.
get_file_list(listing) ==
  get_filtered_sorted_alter_from_base_dir(listing, {".yml", ".yaml"})

\* Variant: docker-compose-dir read before docker-compose-file.
get_docker_files_dir_first(proj, p, listing) ==
  IF p.dict /\ "docker-compose-dir" \in p.keys
    THEN get_file_list(listing)
  ELSE IF p.dict /\ "docker-compose-file" \in p.keys
    THEN [i \in 1..Len(p.compose_files) |-> get_docker_compose(proj, p.compose_files[i])]
  ELSE [i \in 1..Len(p.services) |-> get_docker_compose(proj, p.services[i])]

\* get_docker_files(plan)
get_docker_files(proj, p, listing) ==
  IF p.dict /\ "docker-compose-file" \in p.keys
    THEN [i \in 1..Len(p.compose_files) |-> get_docker_compose(proj, p.compose_files[i])]
  ELSE IF p.dict /\ "docker-compose-dir" \in p.keys
    THEN get_file_list(listing)
  ELSE [i \in 1..Len(p.services) |-> get_docker_compose(proj, p.services[i])]

NotRun == [done |-> FALSE, files |-> <<>>]
NoScripts == [done |-> FALSE]
\* No checkout declared, run_checkouts over.
NoCheckouts == [offline |-> FALSE, entries |-> <<>>, next |-> 1, cloned |-> <<>>,
                at |-> "done"]

\* No resolution under study: the values these variables keep while the
\* dispatcher runs.
ResolveIdle ==
  /\ os_environ = EmptyEnv
  /\ env_files = PlainFiles
  /\ rin = [project |-> CHOOSE pr \in ResolveProjects : pr.none,
            plan |-> CHOOSE p \in ResolvePlans : ~p.dict /\ p.services = <<>>,
            listing |-> <<>>, system |-> <<"Linux">>, inherited |-> EmptyEnv]
  /\ env_out = <<>>
  /\ files_out = NotRun
  /\ files_at = <<>>
  /\ scripts_out = NoScripts
  /\ checkouts = NoCheckouts

\* ------------------------------------------------------------------ state machine

\* The process before any dispatcher exists.  StateHolder.container_mode
\* starts as "Docker", the value __init__ tests for first.
DispatcherInit ==
  /\ container_mode = "Docker"
  /\ always_update \in BOOLEAN
  /\ env_ok \in BOOLEAN
  /\ hierarchy \in { [yaml |-> TRUE, isdict |-> TRUE, table |-> HierarchyTable(TRUE)],
                     [yaml |-> TRUE, isdict |-> TRUE, table |-> HierarchyTable(FALSE)],
                     [yaml |-> TRUE, isdict |-> FALSE, table |-> HierarchyTable(FALSE)],
                     [yaml |-> FALSE, isdict |-> FALSE, table |-> HierarchyTable(FALSE)] }
  /\ project_compose \in Projects
  /\ plan = [dict |-> FALSE, keys |-> {}, n |-> 0]
  /\ pc = "none"
  /\ cmd = "none"
  /\ path = "none"
  /\ queue = <<>>
  /\ log = <<>>
  /\ error = "none"
  /\ mode0 = "Docker"
  /\ ninit = 0
  /\ nrun = 0

Init == DispatcherInit /\ ResolveIdle

Static == UNCHANGED <<always_update, env_ok, hierarchy, project_compose, rvars>>

\* Variant: every step of a dispatch detects the mode afresh from the plan.
KeepsHandler_redetect ==
  /\ container_mode' = DetectMode(plan, "Docker")
  /\ plan' = plan

\* No step of a dispatch assigns StateHolder.container_mode or the plan.
KeepsHandler == UNCHANGED <<container_mode, plan>>

\* The process terminates with a message (ColorPrint.exit_after_print_messages,
\* or an exception reaching Pocok.run's handler).
Fatal(e) == pc' = "fatal" /\ error' = e

\* Variant: the docker check whatever the mode.
check_for_docker(mode) == "check_docker"

\* The EnvironmentUtils check that __init__ calls for a mode.
check_for(mode) ==
  IF mode = "Docker" THEN "check_docker"
  ELSE IF mode = "Kubernetes" THEN "check_kubernetes"
  ELSE "check_helm"

\* The exit code of the presence check of a tool: a missing tool ends the
\* process.
check_rc(tool_ok) == IF tool_ok THEN 0 ELSE 1

\* CommandHandler.__init__ for the active plan p: a YAML error of the
\* hierarchy file ends the process first; plan_ok is whether
\* project_compose['plan'][self.plan] can be read; tool_ok is the outcome of
\* the one EnvironmentUtils.check_* call made for the detected mode.
CommandHandler_init(p, plan_ok, tool_ok) ==
  /\ pc \in {"none", "ready"}
  /\ ninit < MaxInits
  /\ IF ~hierarchy.yaml
       THEN Fatal("ConfigLoadError") /\ UNCHANGED <<plan, container_mode>> /\ log' = <<>>
     ELSE IF ~plan_ok
       THEN Fatal("KeyError") /\ UNCHANGED <<plan, container_mode>> /\ log' = <<>>
     ELSE /\ plan' = p
          /\ container_mode' = DetectMode(p, container_mode)
          /\ log' = <<Ev("EnvironmentUtils", check_for(container_mode'), 0, 0,
                         check_rc(tool_ok))>>
          /\ IF check_rc(tool_ok) = 0
               THEN pc' = "ready" /\ error' = error
               ELSE Fatal("ToolMissing")
  /\ ninit' = ninit + 1
  /\ nrun' = nrun
  /\ cmd' = "none" /\ path' = "none" /\ queue' = <<>>
  /\ mode0' = container_mode'
  /\ Static

NextMain(q) == IF q = <<>> THEN "post" ELSE "main"

\* run(cmd) up to the first runner call: check_command, the choice of the
\* branch, and run_kubernetes' emptiness check.
run(c) ==
  /\ pc \in {"ready", "done"}
  /\ nrun < MaxRuns
  /\ nrun' = nrun + 1
  /\ cmd' = c
  /\ log' = <<>>
  /\ mode0' = container_mode
  /\ IF check_command(hierarchy, c)
       THEN Fatal("UnknownCommand") /\ path' = "none" /\ queue' = <<>>
     ELSE LET e == hierarchy.table[c] IN
       IF takes_script_branch(plan, container_mode)
         THEN /\ error' = error /\ queue' = <<>>
              /\ IF runs_script(c)
                   THEN path' = "script" /\ pc' = "main"
                   ELSE path' = "skip" /\ pc' = "post"
       ELSE IF container_mode \in {"Kubernetes", "Helm"}
         THEN /\ path' = runner_for(container_mode)
              /\ queue' = e[sequence_key(container_mode)]
              /\ IF unsupported(e, container_mode)
                   THEN Fatal("BackendUnsupported")
                   ELSE pc' = NextMain(queue') /\ error' = error
       ELSE /\ path' = "Docker"
            /\ queue' = docker_sequence(c, e, always_update)
            /\ error' = error
            /\ pc' = NextMain(queue')
  /\ KeepsHandler
  /\ UNCHANGED ninit
  /\ Static

\* What a runner call leaves behind: its invocations in the log, and either
\* the next position or the termination of the process.
Finish(o, next, q) ==
  /\ log' = log \o o.evs
  /\ queue' = q
  /\ IF o.raised /= "" THEN Fatal(o.raised) ELSE pc' = next /\ error' = error
  /\ KeepsHandler
  /\ UNCHANGED <<cmd, path, mode0, ninit, nrun>>
  /\ Static

\* get_environment_variables(plan) could not locate a file: the process
\* terminates before the runner is called.
MissingFile ==
  /\ Fatal("MissingFile")
  /\ KeepsHandler
  /\ UNCHANGED <<cmd, path, mode0, ninit, nrun, log, queue>>
  /\ Static

\* run(), script branch: self.script_runner.run(plan, 'script')
script_main ==
  /\ pc = "main" /\ path = "script"
  /\ \E o \in ScriptPlanRunner_run(project_compose, plan, "script") :
       Finish(o, "post", <<>>)

\* run(), Docker branch: one runner.run(...) of the loop (or the pull)
docker_main ==
  /\ pc = "main" /\ path = "Docker" /\ queue /= <<>>
  /\ IF parse_environment_dict_exits(env_ok) THEN MissingFile
     ELSE \E o \in DockerPlanRunner_run(plan, Head(queue)) :
            Finish(o, NextMain(Tail(queue)), Tail(queue))

\* run_kubernetes, KubernetesRunner: one runner.run(...) of the loop
kubernetes_main ==
  /\ pc = "main" /\ path = "kubectl" /\ queue /= <<>>
  /\ IF parse_environment_dict_exits(env_ok) THEN MissingFile
     ELSE \E o \in KubernetesRunner_run(plan, Head(queue)) :
            Finish(o, NextMain(Tail(queue)), Tail(queue))

\* run_kubernetes, HelmRunner: one runner.run(...) of the loop
helm_main ==
  /\ pc = "main" /\ path = "helm" /\ queue /= <<>>
  /\ IF parse_environment_dict_exits(env_ok) THEN MissingFile
     ELSE \E o \in HelmRunner_run(plan, Head(queue)) :
            Finish(o, NextMain(Tail(queue)), Tail(queue))

\* pre_run: the before_script call when the flag is set (the pre-methods
\* follow it).  Nothing in run() or elsewhere calls pre_run, so no step of
\* the dispatch uses it.
pre_run(proj, p, e) ==
  IF e.before THEN ScriptPlanRunner_run(proj, p, "before_script")
  ELSE { [evs |-> <<>>, raised |-> ""] }

\* run_method: the named built-in methods, called one after the other.  Only
\* `pack` takes no argument: it resolves the environment and hands over to
\* the package handler, whose failure ends the process.
run_method(ms) ==
  { [evs |-> [j \in 1..Len(ms) |-> Ev("method", ms[j], 0, 0, 0)], raised |-> ""] }
  \cup
  { [evs |-> [j \in 1..k |-> Ev("method", ms[j], 0, 0, IF j < k THEN 0 ELSE 1)],
     raised |-> "PackError"] : k \in 1..Len(ms) }

\* after_run, first half: run_method('postmethods', command_list)
post_methods ==
  /\ pc = "post"
  /\ LET ms == Entry.postmethods IN
       IF ms = <<>> THEN Finish([evs |-> <<>>, raised |-> ""], "after", queue)
       ELSE IF parse_environment_dict_exits(env_ok) THEN MissingFile
       ELSE \E o \in run_method(ms) : Finish(o, "after", queue)

\* after_run, second half: the after_script call when the flag is set
after_script ==
  /\ pc = "after"
  /\ IF after_flag(Entry)
       THEN \E o \in ScriptPlanRunner_run(project_compose, plan, "after_script") :
              Finish(o, "done", queue)
       ELSE Finish([evs |-> <<>>, raised |-> ""], "done", queue)

Next ==
  \/ \E p \in Plans, plan_ok, tool_ok \in BOOLEAN : CommandHandler_init(p, plan_ok, tool_ok)
  \/ \E c \in AllVerbs : run(c)
  \/ script_main
  \/ docker_main
  \/ kubernetes_main
  \/ helm_main
  \/ post_methods
  \/ after_script

Spec == Init /\ [][Next]_vars

TypeOK ==
  /\ container_mode \in Modes
  /\ pc \in {"none", "ready", "main", "post", "after", "done", "fatal"}
  /\ path \in {"none", "script", "skip", "Docker", "kubectl", "helm"}
  /\ plan \in Plans
  /\ ninit \in 0..MaxInits
  /\ nrun \in 0..MaxRuns

\* ------------------------------------------------------------------ the resolutions on their own

\* The dispatcher at rest.
DispatcherIdle ==
  /\ container_mode = "Docker"
  /\ always_update = FALSE
  /\ env_ok = TRUE
  /\ hierarchy = [yaml |-> TRUE, isdict |-> TRUE, table |-> HierarchyTable(FALSE)]
  /\ project_compose = {}
  /\ plan = [dict |-> FALSE, keys |-> {}, n |-> 0]
  /\ pc = "none"
  /\ cmd = "none"
  /\ path = "none"
  /\ queue = <<>>
  /\ log = <<>>
  /\ error = "none"
  /\ mode0 = "Docker"
  /\ ninit = 0
  /\ nrun = 0

ResolveInit ==
  /\ DispatcherIdle
  /\ os_environ \in Environs
  /\ env_files \in {PlainFiles, MessyFiles}
  /\ rin \in [project : ResolveProjects, plan : ResolvePlans,
              listing : Listings, system : Systems, inherited : {os_environ}]
  /\ env_out = <<>>
  /\ files_out = NotRun
  /\ files_at = <<>>
  /\ scripts_out = NoScripts
  /\ checkouts = NoCheckouts

\* exit_after_print_messages in parse_environment_dict ended the process.
Exited == env_out /= <<>> /\ ~env_out[Len(env_out)].ok

\* Variant: the files as read for the first runner call used for every call.
files_for_call_cached(files, earlier) == IF earlier = <<>> THEN files ELSE earlier[1]

\* The environment files a runner call gets its `envs` from: the argument
\* get_environment_variables(plan) is evaluated at the call, on the files
\* as they then are, whatever earlier calls read.
files_for_call(files, earlier) == files

\* One call of get_environment_variables for the plan, as made for the
\* `envs` argument of each runner.run call (the descriptor of a
\* CommandHandler is never None).
resolve_environment ==
  /\ ~Exited /\ ~rin.project.none
  /\ Len(env_out) < MaxResolves
  /\ LET r == get_environment_variables(rin.project, rin.plan,
                                        files_for_call(env_files, files_at),
                                        rin.listing, os_environ, rin.system)
     IN /\ env_out' = Append(env_out, r)
        /\ os_environ' = environ_after(os_environ, r)
  /\ files_at' = Append(files_at, env_files)
  /\ UNCHANGED <<dvars, env_files, rin, files_out, scripts_out, checkouts>>

\* One call of DockerPlanRunner.get_docker_files for the plan: a list, or a
\* dict with one of the docker-compose keys.
resolve_docker_files ==
  /\ ~Exited /\ ~files_out.done
  /\ ~rin.plan.dict \/ rin.plan.keys \cap {"docker-compose-file", "docker-compose-dir"} /= {}
  /\ files_out' = [done |-> TRUE,
                   files |-> get_docker_files(rin.project, rin.plan, rin.listing)]
  /\ UNCHANGED <<dvars, os_environ, env_files, rin, env_out, files_at, scripts_out,
                 checkouts>>

ResolveNext ==
  \/ resolve_environment
  \/ resolve_docker_files

SpecResolve == ResolveInit /\ [][ResolveNext]_vars

\* Between two runner calls of a dispatch somebody rewrites the environment
\* files of the repository.
edit_env_files ==
  /\ ~Exited /\ env_out /= <<>> /\ Len(env_out) < MaxResolves
  /\ env_files' \in {PlainFiles, MessyFiles} \ {env_files}
  /\ UNCHANGED <<dvars, os_environ, rin, env_out, files_out, files_at, scripts_out,
                 checkouts>>

RebuildNext ==
  \/ resolve_environment
  \/ resolve_docker_files
  \/ edit_env_files

\* The resolutions with the files changing under them.
SpecRebuild == ResolveInit /\ [][RebuildNext]_vars

\* ------------------------------------------------------------------ the script runner on its own

ScriptTypes == {"script", "before_script", "after_script"}

ScriptsInit == DispatcherIdle /\ ResolveIdle

\* One ScriptPlanRunner.run(plan, script_type) call, for any descriptor,
\* plan and type: the invocations it made and the exception it raised.
run_scripts ==
  /\ \E proj \in Projects, p \in Plans, t \in ScriptTypes :
       \E o \in ScriptPlanRunner_run(proj, p, t) :
         scripts_out' = [done |-> TRUE, project |-> proj, plan |-> p, type |-> t,
                         evs |-> o.evs, raised |-> o.raised]
  /\ UNCHANGED <<dvars, os_environ, env_files, rin, env_out, files_out, files_at,
                 checkouts>>

ScriptsNext == run_scripts

SpecScripts == ScriptsInit /\ [][ScriptsNext]_vars

\* ------------------------------------------------------------------ the start command

\* A checkout entry of the project: the number of spaces in its text,
\* whether its target directory is there beforehand, and whether a clone
\* leaves the directory there.
CheckoutEntries ==
  { [spaces |-> 0, exists |-> FALSE, clone |-> FALSE],
    [spaces |-> 2, exists |-> FALSE, clone |-> FALSE] }
  \cup [spaces : {1}, exists : BOOLEAN, clone : BOOLEAN]

CheckoutLists ==
  {<<>>} \cup UNION { [1..n -> CheckoutEntries] : n \in 1..MaxList }

\* GitRepository is constructed unless StateHolder.offline.
clones(offline) == ~offline

\* os.path.exists(target_dir) after the checkout step.
target_exists(e, offline) == e.exists \/ (clones(offline) /\ e.clone)

\* Variant: a missing target directory is let through.
checkout_error_unchecked(e, offline) ==
  IF e.spaces = 0 THEN "WrongCheckout"
  ELSE IF e.spaces /= 1 THEN "ValueError"
  ELSE "none"

\* One iteration of the loop of run_checkouts: the exit without a space,
\* the unpacking of split(" ") into two names, the exit on a missing
\* directory.
checkout_error(e, offline) ==
  IF e.spaces = 0 THEN "WrongCheckout"
  ELSE IF e.spaces /= 1 THEN "ValueError"
  ELSE IF ~target_exists(e, offline) THEN "EmptyCheckout"
  ELSE "none"

StartInit ==
  /\ DispatcherInit
  /\ os_environ = EmptyEnv
  /\ env_files = PlainFiles
  /\ rin = [project |-> CHOOSE pr \in ResolveProjects : pr.none,
            plan |-> CHOOSE p \in ResolvePlans : ~p.dict /\ p.services = <<>>,
            listing |-> <<>>, system |-> <<"Linux">>, inherited |-> EmptyEnv]
  /\ env_out = <<>>
  /\ files_out = NotRun
  /\ files_at = <<>>
  /\ scripts_out = NoScripts
  /\ \E off \in BOOLEAN, es \in CheckoutLists :
       checkouts = [offline |-> off, entries |-> es, next |-> 1, cloned |-> <<>>,
                    at |-> IF es = <<>> THEN "done" ELSE "loop"]

\* One iteration of the loop of run_checkouts.
run_checkout ==
  /\ pc = "none" /\ checkouts.at = "loop"
  /\ LET e == checkouts.entries[checkouts.next]
         err == checkout_error(e, checkouts.offline)
         last == checkouts.next = Len(checkouts.entries)
     IN /\ checkouts' = [checkouts EXCEPT
                           !.next = @ + 1,
                           !.cloned = IF e.spaces = 1
                                        THEN Append(@, clones(checkouts.offline))
                                        ELSE @,
                           !.at = IF err /= "none" THEN "fatal"
                                  ELSE IF last THEN "done" ELSE "loop"]
        /\ IF err /= "none" THEN Fatal(err) ELSE UNCHANGED <<pc, error>>
  /\ UNCHANGED <<container_mode, always_update, env_ok, hierarchy, project_compose, plan,
                 cmd, path, queue, log, mode0, ninit, nrun>>
  /\ UNCHANGED <<os_environ, env_files, rin, env_out, files_out, files_at, scripts_out>>

\* Start.execute after run_checkouts: CommandHandler() ...
start_construct ==
  /\ checkouts.at = "done" /\ ninit = 0
  /\ \E p \in Plans, plan_ok, tool_ok \in BOOLEAN : CommandHandler_init(p, plan_ok, tool_ok)

\* ... .run("start")
start_run == checkouts.at = "done" /\ nrun = 0 /\ run("start")

StartNext ==
  \/ run_checkout
  \/ start_construct
  \/ start_run
  \/ script_main
  \/ docker_main
  \/ kubernetes_main
  \/ helm_main
  \/ post_methods
  \/ after_script

SpecStart == StartInit /\ [][StartNext]_vars

\* ------------------------------------------------------------------ reading the log

Last(s) == s[Len(s)]
AdapterTools == {"docker-compose", "kubectl", "helm"}
ProcessTools == AdapterTools \cup {"script"}
TokOf(e) == [kind |-> e.kind, i |-> e.i]
Only(tools) == SelectSeq(log, LAMBDA e : e.tool \in tools)
TokensRun(tool) == [j \in 1..Len(Only({tool})) |-> TokOf(Only({tool})[j])]
Called(script_type) ==
  SelectSeq(log, LAMBDA e : e.tool = "ScriptPlanRunner" /\ e.kind = script_type)
Failed(tools) == \E i \in 1..Len(log) : log[i].tool \in tools /\ log[i].rc /= 0
Dispatching == cmd /= "none"
Known == hierarchy.isdict /\ cmd \in DOMAIN hierarchy.table
HookKind(e, k) == e.tool \in {"script", "ScriptPlanRunner"} /\ e.kind = k
MainIdx == { i \in 1..Len(log) : log[i].tool \in AdapterTools \/ HookKind(log[i], "script") }
MethodIdx == { i \in 1..Len(log) : log[i].tool = "method" }
AfterIdx == { i \in 1..Len(log) : HookKind(log[i], "after_script") }
ScriptsRun(k) == SelectSeq(log, LAMBDA e : e.tool = "script" /\ e.kind = k)
BackendDeclared(p) ==
  p.dict /\ p.keys \cap {"kubernetes-file", "kubernetes-dir", "helm-file", "helm-dir"} /= {}
IsSuffix(q, seq) == \E k \in 0..Len(seq) : q = SubSeq(seq, k + 1, Len(seq))
PostHooksRan ==
  /\ Len(Only({"method"})) = Len(Entry.postmethods)
  /\ Entry.after => Len(Called("after_script")) = 1

\* ------------------------------------------------------------------ claims

\* C1: in Helm mode a helm invocation that exits nonzero does not abort the
\* dispatch: the failed invocation never ends the process, every token of
\* the verb's helm sequence is invoked in order (none is left once the main
\* sequence is over), and a dispatch that completes has run the post hooks.
C1_HelmFailureDoesNotAbort ==
  (Dispatching /\ path = "helm" /\ Failed({"helm"})) =>
    /\ ~(pc = "fatal" /\ Last(log).tool = "helm")
    /\ TokensRun("helm") \o queue = Entry.helm
    /\ pc /= "main" => queue = <<>>
    /\ pc = "fatal" => error \notin {"IndexError", "MissingFile", "BackendUnsupported"}
    /\ pc = "done" => PostHooksRan

\* C1 witness: a completed Helm dispatch in which a helm invocation failed,
\* a later token was still invoked and the after_script hook was called.
C1_Witness ==
  /\ pc = "done" /\ path = "helm"
  /\ \E i, j \in 1..Len(log) :
       /\ i < j /\ log[i].tool = "helm" /\ log[i].rc /= 0 /\ log[j].tool = "helm"
  /\ Len(Called("after_script")) = 1

\* C2: a Docker, Kubernetes or Script invocation that exits nonzero ends the
\* dispatch with a fatal error and is the last thing the dispatch invokes:
\* no later token, manifest file, post-method or hook script follows it.
C2_NonHelmFailureIsFatal ==
  \A i \in 1..Len(log) :
    (log[i].tool \in {"docker-compose", "kubectl", "script"} /\ log[i].rc /= 0) =>
      /\ pc = "fatal"
      /\ error = "CalledProcessError"
      /\ i = Len(log)

\* C2 witness: a kubectl invocation failed on the first manifest file of the
\* first token while tokens, files and an after hook were still to come.
C2_Witness ==
  /\ pc = "fatal" /\ path = "kubectl" /\ Len(log) = 1
  /\ log[1].rc /= 0 /\ log[1].f = 1 /\ plan.n > 1
  /\ Len(Entry.kubernetes) > 1 /\ Entry.after
\* C3: with the entry's `before` flag set and a Docker-mode plan declaring
\* before_script (and no script), a dispatch that ran its main sequence has
\* called the before_script runner once, before the first docker-compose
\* invocation, and then one docker-compose invocation per token.
C3_BeforeScriptRunsFirst ==
  (/\ Dispatching /\ Known /\ path = "Docker" /\ Entry.before
   /\ "before_script" \in plan.keys /\ "script" \notin plan.keys
   /\ pc \in {"post", "after", "done"}) =>
    /\ Len(Called("before_script")) = 1
    /\ \A i \in 1..Len(log) : \A j \in 1..Len(log) :
         (HookKind(log[i], "before_script") /\ log[j].tool = "docker-compose") => i < j
    /\ Len(Only({"docker-compose"})) = Len(docker_sequence(cmd, Entry, always_update))

\* C4: the post hooks come once and only after the whole main sequence: the
\* post-methods in list order, then the after_script call, which is made only
\* when the `after` flag is set; a completed dispatch has run all of them,
\* and has called after_script exactly when the flag is set.
C4_PostHooksOnceAfterMain ==
  (Dispatching /\ Known) =>
    /\ \A m \in MainIdx : \A h \in MethodIdx \cup AfterIdx : m < h
    /\ \A h \in MethodIdx : \A a \in AfterIdx : h < a
    /\ (MethodIdx \cup AfterIdx /= {}) => (queue = <<>> /\ pc /= "main")
    /\ Len(Only({"method"})) <= Len(Entry.postmethods)
    /\ \A j \in 1..Len(Only({"method"})) : Only({"method"})[j].kind = Entry.postmethods[j]
    /\ Len(Called("after_script")) <= 1
    /\ (AfterIdx /= {}) =>
         (Entry.after /\ Len(Only({"method"})) = Len(Entry.postmethods)
            /\ ~Failed({"method"}))
    /\ (pc = "done") =>
         /\ Len(Only({"method"})) = Len(Entry.postmethods)
         /\ (Len(Called("after_script")) = 1) <=> Entry.after
         /\ Len(ScriptsRun("after_script")) =
              IF Entry.after
                THEN Len(get_native_scripts(project_compose, plan, "after_script"))
                ELSE 0

\* C4 witness: a completed dispatch with backend invocations, a post-method
\* and both a project-level and a plan-level after script.
C4_Witness ==
  /\ pc = "done" /\ Known
  /\ Len(Only(AdapterTools)) > 0
  /\ Len(Only({"method"})) > 0
  /\ Len(ScriptsRun("after_script")) > 1

\* C5 as stated: whatever the backend, a command of the main sequence that
\* exits nonzero is never where the dispatch ends: the post hooks follow.
C5_PostHooksAfterAnyFailure ==
  ~(/\ pc = "fatal" /\ log /= <<>>
    /\ Len(log) \in MainIdx /\ Last(log).rc /= 0)

\* C5 amended: the post hooks follow a failed command of the main sequence
\* only in Helm mode; after a failed docker-compose, kubectl or script
\* command of the main sequence the dispatch is over and no post hook runs.
C5_PostHooksAfterHelmFailureOnly ==
  (Dispatching /\ Known) =>
    \A i \in MainIdx : (log[i].rc /= 0) =>
      IF log[i].tool = "helm"
        THEN /\ pc = "fatal" => \E h \in MethodIdx \cup AfterIdx : i < h
             /\ pc = "done" => PostHooksRan
        ELSE pc = "fatal" /\ MethodIdx \cup AfterIdx = {}

\* C5 witness: the last helm command of the sequence failed, and the
\* post-method and the after scripts ran all the same.
C5_Witness ==
  /\ pc = "done" /\ path = "helm"
  /\ Last(Only({"helm"})).rc /= 0
  /\ Len(Only({"method"})) > 0
  /\ Len(ScriptsRun("after_script")) > 0

\* C6: after a construction, a structured plan with a kubernetes-* field has
\* set the mode to Kubernetes (also next to helm-* fields), one with a helm-*
\* field and no kubernetes-* field has set it to Helm, and the mode is always
\* one of Docker, Kubernetes, Helm.
C6_ModePriority ==
  /\ container_mode \in Modes
  /\ pc /= "none" =>
       /\ (plan.dict /\ plan.keys \cap {"kubernetes-file", "kubernetes-dir"} /= {})
            => container_mode = "Kubernetes"
       /\ (plan.dict /\ plan.keys \cap {"kubernetes-file", "kubernetes-dir"} = {}
             /\ plan.keys \cap {"helm-file", "helm-dir"} /= {})
            => container_mode = "Helm"

\* C6 witness: a dispatcher constructed for a plan with both kubernetes-file
\* and helm-file.
C6_Witness ==
  /\ pc = "ready"
  /\ {"kubernetes-file", "helm-file"} \subseteq plan.keys
  /\ container_mode = "Kubernetes"

\* C7: after the construction of a dispatcher for a plan without
\* kubernetes-* and helm-* fields (a bare list included) the mode is Docker,
\* whatever was constructed before in the process.
C7_PlainPlanIsDocker ==
  (pc /= "none" /\ ~BackendDeclared(plan)) => container_mode = "Docker"

\* C8: during a dispatch the mode is the one the dispatch began with, and
\* the runner, the sequence iterated and every adapter invocation belong to it.
C8_ModeFixedDuringDispatch ==
  (Dispatching /\ Known) =>
    /\ container_mode = mode0
    /\ path = "Docker" =>
         /\ container_mode = "Docker"
         /\ \A i \in 1..Len(log) : log[i].tool \in AdapterTools => log[i].tool = "docker-compose"
    /\ path = "kubectl" =>
         /\ container_mode = "Kubernetes"
         /\ IsSuffix(queue, Entry.kubernetes)
         /\ \A i \in 1..Len(log) : log[i].tool \in AdapterTools => log[i].tool = "kubectl"
    /\ path = "helm" =>
         /\ container_mode = "Helm"
         /\ IsSuffix(queue, Entry.helm)
         /\ \A i \in 1..Len(log) : log[i].tool \in AdapterTools => log[i].tool = "helm"
    /\ path \in {"script", "skip"} => Only(AdapterTools) = <<>>

\* C8 witness: a completed Helm dispatch of several invocations, begun in a
\* process whose earlier dispatcher was constructed for another plan.
C8_Witness ==
  /\ pc = "done" /\ path = "helm" /\ ninit > 1
  /\ container_mode = "Helm" /\ Len(Only({"helm"})) > 1

\* C9 as stated: in Kubernetes mode a verb whose kubernetes sequence is empty
\* always ends in the "not supported" error with no process invoked.
C9_EmptySequenceAlwaysFatal ==
  (Dispatching /\ Known /\ container_mode = "Kubernetes" /\ Entry.kubernetes = <<>>) =>
    /\ pc = "fatal" /\ error = "BackendUnsupported"
    /\ Only(ProcessTools) = <<>>

\* C9 amended: the same, for a plan that does not declare a `script` field.
C9_EmptySequenceFatalWithoutScript ==
  (/\ Dispatching /\ Known /\ container_mode = "Kubernetes" /\ Entry.kubernetes = <<>>
   /\ "script" \notin plan.keys) =>
    /\ pc = "fatal" /\ error = "BackendUnsupported"
    /\ log = <<>>

\* C9 witness: "build" dispatched in Kubernetes mode for a plan with
\* manifest files, hooks declared, and no script.
C9_Witness ==
  /\ pc = "fatal" /\ error = "BackendUnsupported" /\ cmd = "build"
  /\ container_mode = "Kubernetes" /\ "kubernetes-file" \in plan.keys
  /\ "after_script" \in plan.keys /\ plan.n > 0 /\ Entry.after

\* C10: for a plan declaring `script` and the verb "start" or "up", the
\* dispatch takes the script branch whatever the mode: no docker-compose,
\* kubectl or helm invocation, one ScriptPlanRunner call for type "script",
\* running plan-level scripts only.
C10_ScriptPlanSkipsAdapters ==
  (/\ Dispatching /\ Known /\ plan.dict /\ "script" \in plan.keys
   /\ cmd \in {"start", "up"}) =>
    /\ path = "script"
    /\ Only(AdapterTools) = <<>>
    /\ pc /= "main" => Len(Called("script")) = 1
    /\ \A i \in MainIdx : HookKind(log[i], "script") /\ (log[i].tool = "script" => log[i].f = 1)

\* C10 witness: a completed script dispatch in Kubernetes mode.
C10_Witness ==
  /\ pc = "done" /\ path = "script" /\ container_mode = "Kubernetes"
  /\ cmd = "start" /\ Len(ScriptsRun("script")) > 1

\* C11: for a plan declaring `script` and a verb that is neither "start" nor
\* "up", the dispatch takes the ordinary path: the adapter of the active mode
\* is the one used, and in Docker mode a dispatch past its main sequence has
\* run every token of the verb's docker sequence through docker-compose.
C11_ScriptPlanOtherVerbOrdinary ==
  (/\ Dispatching /\ Known /\ plan.dict /\ "script" \in plan.keys
   /\ cmd \notin {"start", "up"}) =>
    /\ path \in {"Docker", "kubectl", "helm"}
    /\ (container_mode = "Docker" /\ pc \in {"post", "after", "done"}) =>
         TokensRun("docker-compose") = docker_sequence(cmd, Entry, always_update)

\* C11 amended: for such a plan and verb the dispatch has no main sequence at
\* all: no script, no docker-compose, kubectl or helm invocation and no
\* fatal error for an empty sequence; the dispatch goes straight to the post
\* hooks, and a dispatch that completes has run them.
C11_ScriptPlanOtherVerbRunsNothing ==
  (/\ Dispatching /\ Known /\ plan.dict /\ "script" \in plan.keys
   /\ cmd \notin {"start", "up"}) =>
    /\ path = "skip"
    /\ MainIdx = {}
    /\ Called("script") = <<>>
    /\ pc /= "main" /\ queue = <<>>
    /\ pc = "fatal" => error \notin {"BackendUnsupported", "IndexError"}
    /\ pc = "done" => PostHooksRan

\* C11 witness: "down" dispatched in Helm mode for a script plan, completed
\* with nothing but the after scripts run.
C11_Witness ==
  /\ pc = "done" /\ path = "skip" /\ cmd = "down" /\ container_mode = "Helm"
  /\ "script" \in plan.keys /\ Entry.helm /= <<>>
  /\ Len(ScriptsRun("after_script")) > 0
  /\ \A i \in 1..Len(log) : log[i].tool \notin ProcessTools \/ HookKind(log[i], "after_script")

PullIdx == { i \in 1..Len(log) : log[i].tool = "docker-compose" /\ log[i].kind = "pull" }
DockerIdx == { i \in 1..Len(log) : log[i].tool = "docker-compose" }

\* C12: in Docker mode with the always-update flag set and the verb "start",
\* a dispatch past its main sequence has made exactly one docker-compose
\* invocation with the tokens `pull`, before every other docker-compose
\* invocation; with the flag unset or any other verb there is no pull.
C12_PullBeforeStart ==
  (Dispatching /\ Known /\ container_mode = "Docker") =>
    IF always_update /\ cmd = "start"
      THEN /\ pc \in {"post", "after", "done"} => Cardinality(PullIdx) = 1
           /\ \A i \in PullIdx : \A j \in DockerIdx : i <= j
      ELSE PullIdx = {}

\* C12 amended: the same for a plan that declares no `script` field (the
\* dispatch of a script plan makes no docker-compose invocation, so no pull
\* either): the dispatch takes the Docker branch, the pull is its first
\* invocation and the only pull, and the verb's tokens follow it in order.
C12_PullBeforeStartWithoutScript ==
  (/\ Dispatching /\ Known /\ container_mode = "Docker"
   /\ ~(plan.dict /\ "script" \in plan.keys)) =>
    /\ path = "Docker"
    /\ IF always_update /\ cmd = "start"
         THEN /\ pc \in {"post", "after", "done"} =>
                   TokensRun("docker-compose") = <<PullCmd>> \o Entry.docker
              /\ DockerIdx /= {} => PullIdx = {1}
         ELSE /\ PullIdx = {}
              /\ pc \in {"post", "after", "done"} =>
                   TokensRun("docker-compose") = Entry.docker

\* C12 witness: a completed "start" in always-update mode whose first
\* invocation is the pull, followed by the tokens of the sequence.
C12_Witness ==
  /\ pc = "done" /\ path = "Docker" /\ cmd = "start" /\ always_update
  /\ Len(log) > 2
  /\ log[1].tool = "docker-compose" /\ log[1].kind = "pull"
  /\ log[2].tool = "docker-compose" /\ log[2].kind = "cmd"

\* C13: a dispatch of a verb that is no key of the hierarchy, or of any verb
\* when the hierarchy did not load as a mapping, is fatal before anything is
\* invoked: no adapter, script, post-method or hook; and when the hierarchy
\* file is no valid YAML no dispatch is made at all.
C13_UnknownVerbFatalFirst ==
  /\ (Dispatching /\ ~Known) =>
       /\ pc = "fatal" /\ error = "UnknownCommand"
       /\ log = <<>> /\ queue = <<>> /\ path = "none"
  /\ ~hierarchy.yaml => (~Dispatching /\ pc \in {"none", "fatal"} /\ log = <<>>)

\* C13 witness: a known verb refused because the hierarchy is no mapping,
\* for a plan with hooks declared.
C13_Witness ==
  /\ pc = "fatal" /\ error = "UnknownCommand" /\ cmd = "start"
  /\ ~hierarchy.isdict /\ hierarchy.yaml
  /\ "after_script" \in plan.keys /\ plan.n > 0

HelmIdx == { i \in 1..Len(log) : log[i].tool = "helm" }
WarningIdx == { i \in 1..Len(log) : log[i].tool = "warning" }
TakesChart(e) == e.kind \in {"install", "upgrade"}

\* C20: for a Helm plan whose helm-dir lists more than one directory every
\* helm invocation is preceded by the warning and only the first listed
\* directory is ever passed as the chart directory (to the commands that
\* take one); with exactly one directory there is no warning.
C20_HelmDirFirstOnlyWithWarning ==
  (Dispatching /\ Known /\ path = "helm" /\ "helm-dir" \in plan.keys) =>
    /\ plan.n > 1 =>
         \A i \in HelmIdx :
           /\ i > 1 /\ log[i - 1].tool = "warning"
           /\ log[i].f = IF TakesChart(log[i]) THEN 1 ELSE 0
    /\ plan.n = 1 => WarningIdx = {}

\* C20 amended: the same for a Helm plan that declares no helm-file; the
\* warning comes once per helm invocation, immediately before it.  A plan
\* that declares helm-file has its helm-dir ignored: no warning and no chart
\* directory.
C20_HelmDirFirstOnlyWithoutHelmFile ==
  (Dispatching /\ Known /\ path = "helm") =>
    IF "helm-dir" \in plan.keys /\ "helm-file" \notin plan.keys
      THEN /\ \A i \in HelmIdx : log[i].f = IF TakesChart(log[i]) THEN 1 ELSE 0
           /\ plan.n > 1 =>
                /\ \A i \in HelmIdx : i > 1 /\ log[i - 1].tool = "warning"
                /\ \A i \in WarningIdx : i < Len(log) /\ log[i + 1].tool = "helm"
           /\ plan.n = 1 => WarningIdx = {}
      ELSE /\ WarningIdx = {}
           /\ \A i \in HelmIdx : log[i].f = 0

\* C20 witness: a completed Helm "start" for a helm-dir of two directories:
\* a warning before each of the two invocations, the first directory passed.
C20_Witness ==
  /\ pc = "done" /\ path = "helm" /\ cmd = "start"
  /\ "helm-dir" \in plan.keys /\ plan.n = 2
  /\ Cardinality(WarningIdx) = 2 /\ Cardinality(HelmIdx) = 2
  /\ \A i \in HelmIdx : log[i].f = 1

\* ------------------------------------------------------------------ claims on the resolutions

Resolved == env_out /= <<>> /\ env_out[Len(env_out)].ok
LastEnv == env_out[Len(env_out)].env
Ascending(q) == \A i \in 1..Len(q) : \A j \in 1..Len(q) : i < j => q[i].name < q[j].name
DirEnvFiles == { rin.listing[i] : i \in { j \in 1..Len(rin.listing) : rin.listing[j].ext = ".env" } }
\* the .env files of the directory in the order of their names
SortedDirEnvFiles ==
  CHOOSE q \in [1..Cardinality(DirEnvFiles) -> DirEnvFiles] :
    Ascending(q) /\ { q[i] : i \in 1..Len(q) } = DirEnvFiles
RECURSIVE TextOf(_)
TextOf(fs) == IF fs = <<>> THEN <<>> ELSE env_files[Head(fs)] \o TextOf(Tail(fs))
\* the files in the order of the merge: default, includes, scanned files
MergeOrder ==
  (IF "environment" \in rin.project.keys THEN <<rin.project.environment>> ELSE <<>>)
  \o (IF rin.plan.dict /\ "environment" \in rin.plan.keys THEN rin.plan.include ELSE <<>>)
  \o (IF rin.plan.dict /\ "docker-compose-dir" \in rin.plan.keys
        THEN SortedDirEnvFiles ELSE <<>>)
\* what the files define, read as one file in that order
FileDefined == parse_lines(TextOf(MergeOrder), EmptyEnv)

\* C14: the files are merged in the order project default, the plan's
\* includes in list order, the scanned .env files in sorted order, the last
\* file defining a key winning: every key a file defines (HOST_SYSTEM
\* aside) has in the resolved map the value the files give it when read as
\* one file in that order.
C14_MergeOrderLastWins ==
  Resolved =>
    \A k \in DOMAIN FileDefined \ {HOST_SYSTEM} :
      k \in DOMAIN LastEnv /\ LastEnv[k] = FileDefined[k]

\* C14 witness: default, includes <<b, a>> and a docker-compose-dir whose
\* enumeration is unsorted: A comes from the last scanned file, P from the
\* last include (not the default), D from the last scanned file.
C14_Witness ==
  /\ Resolved /\ env_files = PlainFiles
  /\ "environment" \in rin.project.keys
  /\ rin.plan.include = <<IncludeB, IncludeA>>
  /\ "docker-compose-dir" \in rin.plan.keys
  /\ rin.listing = <<DirEnv2, DirEnv1, DirYml>>
  /\ LastEnv[<<"A">>] = <<"4">> /\ LastEnv[<<"P">>] = <<"1">> /\ LastEnv[<<"D">>] = <<"4">>

\* C15: in the resolved map a key defined by a file has the file's value
\* even when the inherited environment defines it, a key defined only by
\* the inherited environment keeps its value, HOST_SYSTEM is the name of
\* the host system whatever the files or the inherited environment say,
\* and there is no other key.
C15_FilesOverInheritedHostLast ==
  Resolved =>
    /\ DOMAIN LastEnv = DOMAIN rin.inherited \cup DOMAIN FileDefined \cup {HOST_SYSTEM}
    /\ \A k \in DOMAIN LastEnv :
         LastEnv[k] = IF k = HOST_SYSTEM THEN rin.system
                      ELSE IF k \in DOMAIN FileDefined THEN FileDefined[k]
                      ELSE rin.inherited[k]

\* C15 witness: HOST_SYSTEM defined both by a file and by the inherited
\* environment, with an inherited-only key beside it.
C15_Witness ==
  /\ Resolved
  /\ HOST_SYSTEM \in DOMAIN FileDefined /\ HOST_SYSTEM \in DOMAIN rin.inherited
  /\ FileDefined[HOST_SYSTEM] /= rin.system
  /\ LastEnv[HOST_SYSTEM] = rin.system
  /\ LastEnv[<<"E">>] = <<"e">> /\ LastEnv[<<"A">>] = <<"0">>

\* C16: resolving again with the files unchanged gives the same map, and
\* the resolutions leave the process's own environment as it was inherited.
C16_ResolutionIdempotent ==
  /\ \A i \in 1..Len(env_out) : \A j \in 1..Len(env_out) : env_out[i] = env_out[j]
  /\ os_environ = rin.inherited

\* C16 witness: two resolutions done, the files having overridden an
\* inherited key.
C16_Witness ==
  /\ Len(env_out) > 1 /\ Resolved
  /\ <<"A">> \in DOMAIN rin.inherited
  /\ LastEnv[<<"A">>] /= rin.inherited[<<"A">>]
  /\ env_out[1] = env_out[2]

\* C17: for a plan that declares docker-compose-dir, kubernetes-dir or
\* helm-dir every .env file of the directory is merged, in sorted order:
\* the files to parse end with them, and D has the value of the last one.
C17_EveryPlanDirScanned ==
  (Resolved /\ rin.plan.dict /\ rin.plan.keys \cap DirKeys /= {}) =>
    /\ IsSuffix(SortedDirEnvFiles, plan_env_files(rin.plan, rin.listing))
    /\ <<"D">> \in DOMAIN LastEnv /\ LastEnv[<<"D">>] = <<"4">>

\* C17 amended: that holds for a plan declaring docker-compose-dir; the
\* directory of a plan declaring kubernetes-dir or helm-dir is not scanned:
\* the files to parse are the plan's includes alone, and D has the value of
\* the project default, if any.
C17_OnlyComposeDirScanned ==
  (Resolved /\ rin.plan.dict /\ rin.plan.keys \cap DirKeys /= {}) =>
    IF "docker-compose-dir" \in rin.plan.keys
      THEN /\ IsSuffix(SortedDirEnvFiles, plan_env_files(rin.plan, rin.listing))
           /\ <<"D">> \in DOMAIN LastEnv /\ LastEnv[<<"D">>] = <<"4">>
      ELSE /\ plan_env_files(rin.plan, rin.listing) =
                (IF "environment" \in rin.plan.keys THEN rin.plan.include ELSE <<>>)
           /\ <<"D">> \in DOMAIN LastEnv =>
                ("environment" \in rin.project.keys /\ LastEnv[<<"D">>] = <<"0">>)

\* C17 witness: a docker-compose-dir enumerated out of order, resolved with
\* the later file's value for D over the default's.
C17_Witness ==
  /\ Resolved /\ "docker-compose-dir" \in rin.plan.keys
  /\ rin.listing = <<DirEnv2, DirEnv1, DirYml>>
  /\ "environment" \in rin.project.keys /\ env_files = PlainFiles
  /\ LastEnv[<<"D">>] = <<"4">>

\* the file name a service stands for
ComposeName(sv) ==
  IF ~rin.project.none /\ "containers" \in rin.project.keys
       /\ sv \in DOMAIN rin.project.containers
    THEN rin.project.containers[sv] ELSE sv

\* C19: the Docker file list of a bare-list plan has one entry per service,
\* in order, each the path of the file the containers table names for the
\* service, or of the service name itself when the table has no entry or
\* the descriptor is absent; docker-compose-file is read before
\* docker-compose-dir, and docker-compose-dir before the bare list.
C19_DockerFileResolution ==
  files_out.done =>
    IF rin.plan.dict /\ "docker-compose-file" \in rin.plan.keys
      THEN /\ Len(files_out.files) = Len(rin.plan.compose_files)
           /\ \A i \in 1..Len(files_out.files) :
                files_out.files[i] = Path("", ComposeName(rin.plan.compose_files[i]), "")
    ELSE IF rin.plan.dict /\ "docker-compose-dir" \in rin.plan.keys
      THEN files_out.files = <<DirYml>>
    ELSE /\ Len(files_out.files) = Len(rin.plan.services)
         /\ \A i \in 1..Len(files_out.files) :
              files_out.files[i] = Path("", ComposeName(rin.plan.services[i]), "")

\* C19 witness: the plan [web, db] with containers {web: custom.yml}.
C19_Witness ==
  /\ files_out.done /\ ~rin.plan.dict
  /\ rin.plan.services = <<"web", "db">>
  /\ "containers" \in rin.project.keys
  /\ files_out.files = <<Path("", "custom.yml", ""), Path("", "db", "")>>

\* the text t without its leading and trailing whitespace
Trimmed(t) ==
  LET ink == { i \in 1..Len(t) : t[i] \notin Whitespace }
  IN IF ink = {} THEN <<>>
     ELSE SubSeq(t, CHOOSE a \in ink : \A i \in ink : a <= i,
                    CHOOSE b \in ink : \A i \in ink : b >= i)
\* a line that defines something: no "#" at its start, and a "=" in it
Defining(l) == ~(Len(l) > 0 /\ l[1] = "#") /\ \E m \in 1..Len(l) : l[m] = "="
FirstEq(l) == CHOOSE m \in 1..Len(l) : l[m] = "=" /\ \A j \in 1..(m - 1) : l[j] /= "="
KeyOf(l) == Trimmed(SubSeq(l, 1, FirstEq(l) - 1))
ValueOf(l) == Trimmed(SubSeq(l, FirstEq(l) + 1, Len(l)))
MergedText == TextOf(MergeOrder)
DefiningLines(k) ==
  { i \in 1..Len(MergedText) : Defining(MergedText[i]) /\ KeyOf(MergedText[i]) = k }

\* C28: parsing the environment files: a line beginning with "#" defines
\* nothing, a line without "=" defines nothing, any other line defines the
\* trimmed text before its first "=" as key with the trimmed text after it
\* (further "=" kept) as value, and the last line defining a key gives its
\* value.  So every defining line's key is in the resolved map, and every
\* key of the map other than HOST_SYSTEM has the value of the last line
\* defining it, or its inherited value when no line defines it.
C28_EnvFileParsing ==
  Resolved =>
    /\ \A i \in 1..Len(MergedText) :
         Defining(MergedText[i]) => KeyOf(MergedText[i]) \in DOMAIN LastEnv
    /\ \A k \in DOMAIN LastEnv \ {HOST_SYSTEM} :
         IF DefiningLines(k) = {}
           THEN k \in DOMAIN rin.inherited /\ LastEnv[k] = rin.inherited[k]
           ELSE LastEnv[k] =
                  ValueOf(MergedText[CHOOSE i \in DefiningLines(k) :
                                       \A j \in DefiningLines(k) : i >= j])

\* C28 witness: the includes b then a and a scanned directory: b defines A
\* twice and P as empty, a defines A with a value holding "=" and has a
\* line without "="; a scanned file has a comment and a "#" after a blank.
C28_Witness ==
  /\ Resolved /\ env_files = MessyFiles
  /\ rin.plan.include = <<IncludeB, IncludeA>>
  /\ "docker-compose-dir" \in rin.plan.keys /\ "environment" \notin rin.project.keys
  /\ LastEnv[<<"A">>] = <<"1", "=", "1">> /\ LastEnv[<<"P">>] = <<>>
  /\ LastEnv[<<"#", "Q">>] = <<"1">> /\ LastEnv[<<"D">>] = <<"4">>
  /\ DOMAIN LastEnv = {<<"A">>, <<"P">>, <<"#", "Q">>, <<"D">>, HOST_SYSTEM} \cup DOMAIN rin.inherited

\* ------------------------------------------------------------------ claims on the invocations

Upto(n) == [f \in 1..n |-> f]
AllZero(evs) == \A j \in 1..Len(evs) : evs[j].rc = 0
PastMain == pc \in {"post", "after", "done"}
NoScript == ~(plan.dict /\ "script" \in plan.keys)

\* C21: every Helm adapter call makes exactly one invocation (the tokens of
\* the sequence are invoked one for one, in order), of the form helm, the
\* tokens, the release name; the chart directory, if the plan resolves one,
\* and one `-f file` per values file in list order follow if and only if
\* the tokens include install or upgrade.
C21_HelmInvocationForm ==
  (Dispatching /\ Known /\ path = "helm") =>
    /\ error /= "IndexError" => TokensRun("helm") \o queue = Entry.helm
    /\ \A i \in HelmIdx :
         LET tok == TokOf(log[i])
             values == IF plan.dict /\ "helm-file" \in plan.keys THEN Upto(plan.n) ELSE <<>>
             chart == IF plan.dict /\ "helm-file" \notin plan.keys /\ "helm-dir" \in plan.keys
                        THEN <<Arg("dir", 1)>> ELSE <<>>
         IN log[i].args =
              <<Lit("helm")>> \o Words(tok) \o <<ReleaseName>>
                \o (IF tok.kind \in {"install", "upgrade"}
                      THEN chart \o FileFlags(values) ELSE <<>>)

\* C21 witness: a completed Helm "start" for two values files: the
\* install command carries `-f file1 -f file2` after the release name.
C21_Witness ==
  /\ pc = "done" /\ path = "helm" /\ cmd = "start"
  /\ "helm-file" \in plan.keys /\ plan.n = 2
  /\ Cardinality(HelmIdx) = 2
  /\ log[1].args = <<Lit("helm"), Lit("install"), Arg("opt", 1), ReleaseName,
                     Lit("-f"), Arg("file", 1), Lit("-f"), Arg("file", 2)>>

\* the invocations of tokens t1..tn on files f1..fm, token by token
ProductOrder(toks, m) ==
  [j \in 1..(Len(toks) * m) |-> [tok |-> toks[((j - 1) \div m) + 1], file |-> ((j - 1) % m) + 1]]
ManifestCount ==
  IF plan.dict /\ plan.keys \cap {"kubernetes-file", "kubernetes-dir"} /= {} THEN plan.n ELSE 0
KubectlAsClaimed ==
  LET evs == Only({"kubectl"})
      order == ProductOrder(Entry.kubernetes, ManifestCount)
  IN /\ Len(evs) <= Len(order)
     /\ \A j \in 1..Len(evs) :
          /\ TokOf(evs[j]) = order[j].tok /\ evs[j].f = order[j].file
          /\ evs[j].args = <<Lit("kubectl")>> \o Words(order[j].tok)
                              \o <<Lit("-f"), Arg("file", order[j].file)>>
          /\ j < Len(evs) => evs[j].rc = 0
     /\ PastMain => (Len(evs) = Len(order) /\ AllZero(evs))
     /\ \A i \in 1..Len(log) : log[i].tool = "kubectl" =>
          \A h \in 1..(i - 1) : log[h].tool = "kubectl"

\* C22: in Kubernetes mode the invocations of a dispatch are the kubectl
\* invocations (t1,f1), (t1,f2), .., (tn,fm) in that order, each carrying
\* its tokens and `-f file`, each begun only after the one before exited
\* (with 0, or it would have been the last), exactly n*m of them once the
\* main sequence has succeeded.
C22_KubectlProductOrder ==
  (Dispatching /\ Known /\ container_mode = "Kubernetes") =>
    /\ KubectlAsClaimed
    /\ \A i \in MainIdx : log[i].tool = "kubectl"

\* C22 amended: the same for a plan that declares no `script` field.
C22_KubectlProductOrderWithoutScript ==
  (Dispatching /\ Known /\ container_mode = "Kubernetes" /\ NoScript) =>
    /\ path = "kubectl"
    /\ KubectlAsClaimed
    /\ \A i \in MainIdx : log[i].tool = "kubectl"

\* C22 witness: "start" completed for two tokens and two manifest files:
\* four invocations, (t1,f1), (t1,f2), (t2,f1), (t2,f2).
C22_Witness ==
  /\ pc = "done" /\ path = "kubectl" /\ cmd = "start" /\ plan.n = 2
  /\ Len(Only({"kubectl"})) = 4
  /\ [j \in 1..4 |-> <<Only({"kubectl"})[j].i, Only({"kubectl"})[j].f>>]
       = << <<1, 1>>, <<1, 2>>, <<2, 1>>, <<2, 2>> >>

DockerAsClaimed ==
  LET evs == SelectSeq(log, LAMBDA e : e.tool = "docker-compose" /\ e.kind /= "pull")
  IN /\ Len(evs) <= Len(Entry.docker)
     /\ \A j \in 1..Len(evs) :
          /\ TokOf(evs[j]) = Entry.docker[j]
          /\ evs[j].args = <<Lit("docker-compose"), Lit("--project-name"), ProjectName>>
                              \o FileFlags(Upto(plan.n)) \o Words(Entry.docker[j])
          /\ j < Len(evs) => evs[j].rc = 0
     /\ PastMain => (Len(evs) = Len(Entry.docker) /\ AllZero(evs))

\* C23: in Docker mode each token of the verb's docker sequence makes
\* exactly one invocation, in sequence order, of the form docker-compose,
\* --project-name and the name, `-f file` per compose file in resolved
\* order, then the tokens; the -f part is the same for every token.
C23_DockerInvocationForm ==
  (Dispatching /\ Known /\ container_mode = "Docker") => DockerAsClaimed

\* C23 amended: the same for a plan that declares no `script` field.
C23_DockerInvocationFormWithoutScript ==
  (Dispatching /\ Known /\ container_mode = "Docker" /\ NoScript) =>
    /\ path = "Docker"
    /\ DockerAsClaimed
    /\ \A i \in DockerIdx : \A j \in DockerIdx :
         SubSeq(log[i].args, 1, 3 + 2 * plan.n) = SubSeq(log[j].args, 1, 3 + 2 * plan.n)

\* C23 witness: "start" completed for two compose files and two tokens.
C23_Witness ==
  /\ pc = "done" /\ path = "Docker" /\ cmd = "start" /\ ~always_update /\ plan.n = 2
  /\ Len(log) >= 2
  /\ log[1].args = <<Lit("docker-compose"), Lit("--project-name"), ProjectName,
                     Lit("-f"), Arg("file", 1), Lit("-f"), Arg("file", 2),
                     Lit("cmd"), Arg("opt", 1)>>
  /\ log[2].args = <<Lit("docker-compose"), Lit("--project-name"), ProjectName,
                     Lit("-f"), Arg("file", 1), Lit("-f"), Arg("file", 2),
                     Lit("cmd"), Arg("opt", 2)>>

\* C25: the environment is resolved anew for every adapter call: the map
\* given to each call is the resolution of the files as they are at that
\* call, so a change made to an environment file after one call shows in
\* the map of the next; no call gets the map of an earlier one.
C25_EnvironmentRebuiltPerCall ==
  /\ Len(files_at) = Len(env_out)
  /\ \A i \in 1..Len(env_out) :
       env_out[i] = get_environment_variables(rin.project, rin.plan, files_at[i],
                                              rin.listing, rin.inherited, rin.system)

\* C25 witness: two calls with the include a rewritten between them: the
\* first map has A = 1, the second A = 1=1.
C25_Witness ==
  /\ Len(env_out) = 2 /\ Resolved
  /\ rin.plan.include = <<IncludeA>> /\ "docker-compose-dir" \notin rin.plan.keys
  /\ files_at = <<PlainFiles, MessyFiles>>
  /\ env_out[1].env[<<"A">>] = <<"1">>
  /\ env_out[2].env[<<"A">>] = <<"1", "=", "1">>

\* The presence checks made since the construction.
Checks == SelectSeq(log, LAMBDA e : e.tool = "EnvironmentUtils")

\* C26: a construction that reads the plan runs exactly one presence check,
\* the one of the mode detected from the plan (check_docker for Docker,
\* check_kubernetes for Kubernetes, check_helm for Helm), and is ready only
\* if it passed; once the check or the reading of the plan has failed the
\* process is over: no verb is dispatched and no external command runs.
C26_OneCheckThenFailFast ==
  /\ (ninit > 0 /\ nrun = 0 /\ (pc = "ready" \/ error = "ToolMissing")) =>
       /\ container_mode = DetectMode(plan, container_mode)
       /\ Len(Checks) = 1 /\ log = Checks
       /\ (container_mode = "Docker") = (Checks[1].kind = "check_docker")
       /\ (container_mode = "Kubernetes") = (Checks[1].kind = "check_kubernetes")
       /\ (container_mode = "Helm") = (Checks[1].kind = "check_helm")
       /\ (pc = "ready") = (Checks[1].rc = 0)
  /\ error \in {"ToolMissing", "KeyError"} =>
       /\ pc = "fatal" /\ ~Dispatching /\ nrun = 0
       /\ Only(ProcessTools) = <<>> /\ ~ENABLED Next

\* C26 witness: a second construction, for a Helm plan, whose helm check
\* fails.
C26_Witness ==
  /\ ninit = 2 /\ pc = "fatal" /\ error = "ToolMissing"
  /\ container_mode = "Helm" /\ "helm-file" \in plan.keys
  /\ Checks = <<Ev("EnvironmentUtils", "check_helm", 0, 0, 1)>>

\* The checkout entries whose iteration is over.
CheckedOut == 1..(checkouts.next - 1)
GoodEntry(e) == e.spaces = 1 /\ (e.exists \/ (~checkouts.offline /\ e.clone))

C27_StartReached ==
  /\ ~checkouts.offline /\ checkouts.cloned = <<TRUE, TRUE>>
  /\ cmd = "start" /\ Only(AdapterTools) /= <<>>

\* ------------------------------------------------------------------ claims on the script runner

\* the script invocations of the call
ScriptRuns == SelectSeq(scripts_out.evs, LAMBDA e : e.tool = "script")
\* the list the claim gives: project-level entries unless the type is
\* "script", then the plan-level entries (f = 1) in list order
ClaimedScripts ==
  (IF scripts_out.type /= "script" /\ scripts_out.type \in scripts_out.project
     THEN <<[i |-> 1, f |-> 0]>> ELSE <<>>)
  \o (IF scripts_out.type \in scripts_out.plan.keys
        THEN [j \in 1..scripts_out.plan.n |-> [i |-> j, f |-> 1]] ELSE <<>>)

====
